---- MODULE Spec2Model ----
(***************************************************************************)
(* Model of the Lorenz attractor visualiser (src/src/main.rs): the         *)
(* simulator State (coefficients, bounded trail of points), the            *)
(* OrbitCamera and the frame loop of main().                               *)
(*                                                                         *)
(* f32 values are modelled as fixed-point numbers: the integer n stands    *)
(* for the real number n / Scale, finite values lie in -FMax..FMax, and    *)
(* the three IEEE specials +inf, -inf and NaN are kept as PosInf, NegInf   *)
(* and NaN with the IEEE rules for arithmetic on them.                     *)
(*                                                                         *)
(* An operator that uses an argument more than once binds it first         *)
(* (v \in {argument}), so that the argument is evaluated once.             *)
(***************************************************************************)
EXTENDS Integers, Sequences, FiniteSets, TLC

\* the element of a singleton set
Only(S) == CHOOSE v \in S : TRUE

\* ------------------------------------------------------------------------
\* f32
\* ------------------------------------------------------------------------

\* fixed-point resolution: one unit is 1/Scale
Scale == 1000

\* largest finite magnitude (in units); beyond it a result overflows to +-inf
FMax == 100000000

PosInf == FMax + 1
NegInf == 0 - (FMax + 1)
NaN == FMax + 2

IsNaN(a) == a = NaN
IsInf(a) == a = PosInf \/ a = NegInf
IsFinite(a) == a >= 0 - FMax /\ a <= FMax

Abs(a) == IF a < 0 THEN 0 - a ELSE a
Sgn(a) == IF a < 0 THEN 0 - 1 ELSE IF a > 0 THEN 1 ELSE 0

\* rounding of an exact finite result into the f32 range
Norm(n) == IF n > FMax THEN PosInf ELSE IF n < 0 - FMax THEN NegInf ELSE n

\* the f32 literal num/den
F(num, den) == (2 * num * Scale + den) \div (2 * den)

FNeg(a0) == Only({IF IsNaN(a) THEN NaN ELSE 0 - a : a \in {a0}})

FAdd(a0, b0) ==
    Only({IF IsNaN(a) \/ IsNaN(b) THEN NaN
          ELSE IF IsInf(a) THEN (IF IsInf(b) /\ b # a THEN NaN ELSE a)
          ELSE IF IsInf(b) THEN b
          ELSE Norm(a + b) : a \in {a0}, b \in {b0}})

FSub(a, b) == FAdd(a, FNeg(b))

\* |a| * |b| / Scale for finite operands, rounded to nearest, computed by
\* parts so that no intermediate product leaves the integer range
MulMag(x, y) ==
    LET xh == x \div Scale
        xl == x % Scale
        yh == y \div Scale
        yl == y % Scale
    IN  IF xh > 0 /\ yh > 0 /\ xh > (FMax \div Scale) \div yh
        THEN PosInf
        ELSE Norm(xh * yh * Scale + xh * yl + xl * yh
                  + (xl * yl + Scale \div 2) \div Scale)

FMul(a0, b0) ==
    Only({IF IsNaN(a) \/ IsNaN(b) THEN NaN
          ELSE IF IsInf(a) \/ IsInf(b)
               THEN (IF a = 0 \/ b = 0 THEN NaN ELSE Sgn(a) * Sgn(b) * PosInf)
          ELSE Sgn(a) * Sgn(b) * MulMag(Abs(a), Abs(b)) : a \in {a0}, b \in {b0}})

\* long division |a| / |b| in fixed point, one decimal digit at a time
RECURSIVE DivDigits(_, _, _, _)
DivDigits(q, r, y, s) ==
    IF s = 1 THEN [q |-> q, r |-> r]
    ELSE DivDigits(q * 10 + (r * 10) \div y, (r * 10) % y, y, s \div 10)

DivMag(x, y) ==
    IF x \div y > FMax \div Scale THEN PosInf
    ELSE Only({Norm(d.q + (IF 2 * d.r >= y THEN 1 ELSE 0))
               : d \in {DivDigits(x \div y, x % y, y, Scale)}})

FDiv(a0, b0) ==
    Only({IF IsNaN(a) \/ IsNaN(b) THEN NaN
          ELSE IF IsInf(a) THEN (IF IsInf(b) THEN NaN
                                 ELSE IF b < 0 THEN 0 - a ELSE a)
          ELSE IF IsInf(b) THEN 0
          ELSE IF b = 0 THEN (IF a = 0 THEN NaN ELSE Sgn(a) * PosInf)
          ELSE Sgn(a) * Sgn(b) * DivMag(Abs(a), Abs(b)) : a \in {a0}, b \in {b0}})

\* floor(r * r / Scale) for r >= 0, by parts
SqrMag(r) ==
    LET h == r \div Scale
        l == r % Scale
    IN  h * h * Scale + 2 * h * l + (l * l) \div Scale

\* largest r in lo..hi with r * r / Scale <= a
RECURSIVE SqrtSearch(_, _, _)
SqrtSearch(a, lo0, hi0) ==
    Only({IF lo >= hi THEN lo
          ELSE IF SqrMag(mid) <= a THEN SqrtSearch(a, mid, hi)
          ELSE SqrtSearch(a, lo, mid - 1)
          : <<lo, hi, mid>> \in {<<lo0, hi0, (lo0 + hi0 + 1) \div 2>>}})

\* an upper bound of the square root of any finite value; the root of a is
\* also at most a when a >= 1 and at most 1 otherwise
SqrtMax == 4 * (FMax \div Scale)

FSqrt(a0) ==
    Only({IF IsNaN(a) \/ a < 0 THEN NaN
          ELSE IF a = PosInf THEN PosInf
          ELSE SqrtSearch(a, 0, IF a <= Scale THEN Scale
                                ELSE IF a <= SqrtMax THEN a ELSE SqrtMax)
          : a \in {a0}})

\* f32::clamp(self, min, max): NaN stays NaN
FClamp(a0, lo, hi) ==
    Only({IF IsNaN(a) THEN NaN ELSE IF a < lo THEN lo ELSE IF a > hi THEN hi ELSE a
          : a \in {a0}})

\* `x as usize`: truncates toward zero, saturates, NaN becomes 0
AsUsize(a0) ==
    Only({IF IsNaN(a) \/ a <= 0 THEN 0
          ELSE IF a = PosInf THEN FMax
          ELSE a \div Scale : a \in {a0}})

\* `n as f32` for a small count n
AsF32(n) == n * Scale

\* ------------------------------------------------------------------------
\* Vec2 / Vec3 / Option
\* ------------------------------------------------------------------------

vec3(x, y, z) == [x |-> x, y |-> y, z |-> z]
vec2(x, y) == [x |-> x, y |-> y]

V3Add(a0, b0) ==
    Only({vec3(FAdd(a.x, b.x), FAdd(a.y, b.y), FAdd(a.z, b.z))
          : a \in {a0}, b \in {b0}})
V3Sub(a0, b0) ==
    Only({vec3(FSub(a.x, b.x), FSub(a.y, b.y), FSub(a.z, b.z))
          : a \in {a0}, b \in {b0}})
V3Scale(a0, k0) ==
    Only({vec3(FMul(a.x, k), FMul(a.y, k), FMul(a.z, k))
          : a \in {a0}, k \in {k0}})
V2Sub(a0, b0) ==
    Only({vec2(FSub(a.x, b.x), FSub(a.y, b.y)) : a \in {a0}, b \in {b0}})

V3Length(a0) ==
    Only({FSqrt(FAdd(FAdd(FMul(a.x, a.x), FMul(a.y, a.y)), FMul(a.z, a.z)))
          : a \in {a0}})

V3Normalize(a0) ==
    Only({vec3(FDiv(a.x, len), FDiv(a.y, len), FDiv(a.z, len))
          : <<a, len>> \in {<<a0, V3Length(a0)>>}})

V3Cross(a0, b0) ==
    Only({vec3(FSub(FMul(a.y, b.z), FMul(b.y, a.z)),
               FSub(FMul(a.z, b.x), FMul(b.z, a.x)),
               FSub(FMul(a.x, b.y), FMul(b.x, a.y)))
          : a \in {a0}, b \in {b0}})

V3Finite(p0) == \E p \in {p0} : IsFinite(p.x) /\ IsFinite(p.y) /\ IsFinite(p.z)

None == <<>>
Some(v) == <<v>>

Last(s0) == Only({s[Len(s)] : s \in {s0}})

\* ------------------------------------------------------------------------
\* f32::sin / f32::cos
\* ------------------------------------------------------------------------

PI == F(31416, 10000)
FRAC_PI_2 == F(15708, 10000)
TAU == F(62832, 10000)

\* x - x^3/3! + x^5/5! - x^7/7! for x in [-pi/2, pi/2]
SinPoly(x0) ==
    Only({FSub(FAdd(FSub(x, t3), t5), FDiv(FMul(t5, x2), F(42, 1)))
          : <<x, x2, t3, t5>> \in
               {<<x0, x20, t30, FDiv(FMul(t30, x20), F(20, 1))>>
                : <<x20, t30>> \in
                     {<<x20, FDiv(FMul(x0, x20), F(6, 1))>> : x20 \in {FMul(x0, x0)}}}})

FSin(a0) ==
    Only({IF ~IsFinite(a) THEN NaN
          ELSE Only({SinPoly(IF r > FRAC_PI_2 THEN PI - r
                             ELSE IF r < 0 - FRAC_PI_2 THEN 0 - PI - r
                             ELSE r)
                     : r \in {((a + PI) % TAU) - PI}})
          : a \in {a0}})

FCos(a0) == Only({IF ~IsFinite(a) THEN NaN ELSE FSin(a + FRAC_PI_2) : a \in {a0}})

\* ------------------------------------------------------------------------
\* Lorenz system
\* ------------------------------------------------------------------------

\* variant: the y component without its damping term
lorenz_NoDamping(p0, sg, bt, rh) ==
    Only({vec3(FMul(sg, FSub(p.y, p.x)),
               FMul(p.x, FSub(rh, p.z)),
               FSub(FMul(p.x, p.y), FMul(bt, p.z))) : p \in {p0}})

lorenz(p0, sg, bt, rh) ==
    Only({vec3(FMul(sg, FSub(p.y, p.x)),
               FSub(FMul(p.x, FSub(rh, p.z)), p.y),
               FSub(FMul(p.x, p.y), FMul(bt, p.z))) : p \in {p0}})

\* variant: a non-finite point is replaced by a fresh finite one
lorenz_integrate_Reseed(p0, sg, bt, rh, d) ==
    Only({IF V3Finite(p) THEN V3Add(p, V3Scale(lorenz(p, sg, bt, rh), d))
          ELSE vec3(F(0, 1), F(1, 1), F(105, 100)) : p \in {p0}})

lorenz_integrate(p0, sg, bt, rh, d) ==
    Only({V3Add(p, V3Scale(lorenz(p, sg, bt, rh), d)) : p \in {p0}})

\* ------------------------------------------------------------------------
\* State
\* ------------------------------------------------------------------------

VARIABLES
    sigma, beta, rho, dt, tail, speed, start, points,   \* struct State
    distance, yaw, pitch, target,                        \* struct OrbitCamera
    last_left_mouse, last_right_mouse,
    camera3d,      \* the view last handed to set_camera
    lines,         \* the draw_line_3d calls of the current frame
    ui,            \* what the widgets of draw_ui report in the current frame
    input,         \* pointer state polled in the current frame
    released,      \* per button: seen up since update() last sampled it down
    pc,            \* position of main() inside the loop body
    frame          \* number of completed frames

simVars == <<sigma, beta, rho, dt, tail, speed, start, points>>
camVars == <<distance, yaw, pitch, target, last_left_mouse, last_right_mouse>>
vars == <<sigma, beta, rho, dt, tail, speed, start, points,
          distance, yaw, pitch, target, last_left_mouse, last_right_mouse,
          camera3d, lines, ui, input, released, pc, frame>>

\* program constants
DefaultSigma == F(10, 1)
DefaultBeta == FDiv(F(8, 1), F(3, 1))
DefaultRho == F(28, 1)
DefaultDt == F(5, 1000)
DefaultTail == F(5000, 1)
DefaultSpeed == F(10, 1)
StartPoint == vec3(F(0, 1), F(1, 1), F(105, 100))

sensitivity == F(5, 1000)
pan_sensitivity == F(1, 1000)
DefaultDistance == F(100, 1)
MinDistance == F(1, 1)
MaxDistance == F(200, 1)
ZoomGain == F(5, 1)
PitchMargin == F(1, 10)
WorldUp == vec3(F(0, 1), F(1, 1), F(0, 1))

TailMin == F(10, 1)
TailMax == F(10000, 1)
SpeedMin == F(1, 1)
SpeedMax == F(20, 1)

\* ------------------------------------------------------------------------
\* State::step
\* ------------------------------------------------------------------------

\* variant: the bound is tested one too high
RECURSIVE EvictLoop_OffByOne(_, _)
EvictLoop_OffByOne(pts0, max_len) ==
    Only({IF Len(pts) > max_len + 1 THEN EvictLoop_OffByOne(Tail(pts), max_len)
          ELSE pts : pts \in {pts0}})

\* variant: pop_back in place of pop_front
RECURSIVE EvictLoop_PopBack(_, _)
EvictLoop_PopBack(pts0, max_len) ==
    Only({IF Len(pts) > max_len
          THEN EvictLoop_PopBack(SubSeq(pts, 1, Len(pts) - 1), max_len)
          ELSE pts : pts \in {pts0}})

\* while self.points.len() > max_len { self.points.pop_front(); }
RECURSIVE EvictLoop(_, _)
EvictLoop(pts0, max_len) ==
    Only({IF Len(pts) > max_len THEN EvictLoop(Tail(pts), max_len) ELSE pts
          : pts \in {pts0}})

\* variant: `if` in place of `while`, one eviction per appended point
StepOnce_EvictOne(pts0, max_len, sg, bt, rh, d) ==
    Only({IF Len(pts) + 1 > max_len THEN Tail(all) ELSE all
          : <<pts, all>> \in
               {<<pts0, Append(pts0, lorenz_integrate(Last(pts0), sg, bt, rh, d))>>}})

\* variant: the iteration never evicts
StepOnce_NoEvict(pts0, max_len, sg, bt, rh, d) ==
    Only({Append(pts, lorenz_integrate(Last(pts), sg, bt, rh, d)) : pts \in {pts0}})

\* variant: the time step follows the zoom of the camera
StepOnce_ZoomDrift(pts0, max_len, sg, bt, rh, d) ==
    Only({EvictLoop(Append(pts, lorenz_integrate(Last(pts), sg, bt, rh,
                                                 FAdd(d, FSub(DefaultDistance,
                                                              distance)))),
                    max_len)
          : pts \in {pts0}})

\* one iteration of the for loop: push_back(lorenz_integrate(back)), evict
StepOnce(pts0, max_len, sg, bt, rh, d) ==
    Only({EvictLoop(Append(pts, lorenz_integrate(Last(pts), sg, bt, rh, d)), max_len)
          : pts \in {pts0}})

\* for _ in 0..n: back().unwrap() panics on an empty deque
RECURSIVE StepLoop(_, _, _, _, _, _, _)
StepLoop(pts0, n0, max_len, sg, bt, rh, d) ==
    Only({IF n = 0 THEN [points |-> pts, panicked |-> FALSE]
          ELSE IF pts = <<>> THEN [points |-> pts, panicked |-> TRUE]
          ELSE StepLoop(StepOnce(pts, max_len, sg, bt, rh, d),
                        n - 1, max_len, sg, bt, rh, d)
          : pts \in {pts0}, n \in {n0}})

step(pts, tl, sp, sg, bt, rh, d) ==
    Only({StepLoop(pts, n, max_len, sg, bt, rh, d)
          : n \in {AsUsize(sp)}, max_len \in {AsUsize(tl)}})

\* ------------------------------------------------------------------------
\* State::draw
\* ------------------------------------------------------------------------

\* variant: the opacity is taken over the number of segments
Segment_OverSegments(pts, i) ==
    LET a == pts[i + 1]
        b == pts[i + 2]
        d == FDiv(FClamp(V3Length(V3Sub(b, a)), F(0, 1), F(2, 1)), F(2, 1))
    IN  [start |-> a, end |-> b, hue |-> FSub(F(1, 1), d),
         alpha |-> FDiv(AsF32(i), AsF32(Len(pts) - 1))]

Segment(pts, i) ==
    LET a == pts[i + 1]
        b == pts[i + 2]
        d == FDiv(FClamp(V3Length(V3Sub(b, a)), F(0, 1), F(2, 1)), F(2, 1))
    IN  [start |-> a, end |-> b, hue |-> FSub(F(1, 1), d),
         alpha |-> FDiv(AsF32(i), AsF32(Len(pts)))]

draw(pts) ==
    IF Len(pts) < 2 THEN <<>>
    ELSE [k \in 1..(Len(pts) - 1) |-> Segment(pts, k - 1)]

\* ------------------------------------------------------------------------
\* OrbitCamera
\* ------------------------------------------------------------------------

get_position(dist0, yw0, pt0, tg) ==
    Only({V3Add(tg, vec3(FMul(FMul(dist, FCos(pt)), FSin(yw)),
                         FMul(dist, FSin(pt)),
                         FMul(FMul(dist, FCos(pt)), FCos(yw))))
          : dist \in {dist0}, yw \in {yw0}, pt \in {pt0}})

get_camera(dist, yw, pt, tg0) ==
    Only({[position |-> get_position(dist, yw, pt, tg), up |-> WorldUp, target |-> tg]
          : tg \in {tg0}})

PitchLo == FAdd(FNeg(FRAC_PI_2), PitchMargin)
PitchHi == FSub(FRAC_PI_2, PitchMargin)

\* variant: the pitch is not clamped
UpdateOrbit_NoClamp(cam0, in) ==
    Only({IF in.left
          THEN IF cam.last_left_mouse # None
               THEN Only({[cam EXCEPT
                             !.yaw = FSub(cam.yaw, FMul(delta.x, sensitivity)),
                             !.pitch = FAdd(cam.pitch, FMul(delta.y, sensitivity)),
                             !.last_left_mouse = Some(in.mouse)]
                          : delta \in {V2Sub(in.mouse, cam.last_left_mouse[1])}})
               ELSE [cam EXCEPT !.last_left_mouse = Some(in.mouse)]
          ELSE [cam EXCEPT !.last_left_mouse = None] : cam \in {cam0}})

\* the left-button branch of update(): yaw, pitch and the left tracker
UpdateOrbit(cam0, in) ==
    Only({IF in.left
          THEN IF cam.last_left_mouse # None
               THEN Only({[cam EXCEPT
                             !.yaw = FSub(cam.yaw, FMul(delta.x, sensitivity)),
                             !.pitch = FClamp(FAdd(cam.pitch,
                                                   FMul(delta.y, sensitivity)),
                                              PitchLo, PitchHi),
                             !.last_left_mouse = Some(in.mouse)]
                          : delta \in {V2Sub(in.mouse, cam.last_left_mouse[1])}})
               ELSE [cam EXCEPT !.last_left_mouse = Some(in.mouse)]
          ELSE [cam EXCEPT !.last_left_mouse = None] : cam \in {cam0}})

\* the right-button branch of update(): target and the right tracker
\* target -= right * delta.x * pan_sensitivity * distance;
\* target += up * delta.y * pan_sensitivity * distance
PanTarget(cam, right, up, delta) ==
    V3Add(V3Sub(cam.target,
                V3Scale(V3Scale(V3Scale(right, delta.x), pan_sensitivity),
                        cam.distance)),
          V3Scale(V3Scale(V3Scale(up, delta.y), pan_sensitivity), cam.distance))

\* variant: the right tracker is kept when the button is released
UpdatePan_KeepTracker(cam0, in) ==
    Only({IF in.right
          THEN IF cam.last_right_mouse # None
               THEN Only({[cam EXCEPT
                             !.target = PanTarget(cam, right,
                                                  V3Normalize(V3Cross(right, forward)),
                                                  V2Sub(in.mouse, cam.last_right_mouse[1])),
                             !.last_right_mouse = Some(in.mouse)]
                          : <<forward, right>> \in
                               {<<f, V3Normalize(V3Cross(f, WorldUp))>>
                                : f \in {V3Normalize(V3Sub(cam.target,
                                            get_position(cam.distance, cam.yaw,
                                                         cam.pitch, cam.target)))}}})
               ELSE [cam EXCEPT !.last_right_mouse = Some(in.mouse)]
          ELSE cam : cam \in {cam0}})

UpdatePan(cam0, in) ==
    Only({IF in.right
          THEN IF cam.last_right_mouse # None
               THEN Only({[cam EXCEPT
                             !.target = PanTarget(cam, right,
                                                  V3Normalize(V3Cross(right, forward)),
                                                  V2Sub(in.mouse, cam.last_right_mouse[1])),
                             !.last_right_mouse = Some(in.mouse)]
                          : <<forward, right>> \in
                               {<<f, V3Normalize(V3Cross(f, WorldUp))>>
                                : f \in {V3Normalize(V3Sub(cam.target,
                                            get_position(cam.distance, cam.yaw,
                                                         cam.pitch, cam.target)))}}})
               ELSE [cam EXCEPT !.last_right_mouse = Some(in.mouse)]
          ELSE [cam EXCEPT !.last_right_mouse = None] : cam \in {cam0}})

\* variant: the distance is not clamped
UpdateZoom_NoClamp(cam0, in) ==
    Only({[cam EXCEPT !.distance = FSub(cam.distance, FMul(in.wheel, ZoomGain))]
          : cam \in {cam0}})

\* variant: the wheel is ignored while a button is held
UpdateZoom_OnlyIdle(cam0, in) ==
    Only({IF in.left \/ in.right THEN cam
          ELSE [cam EXCEPT !.distance = FClamp(FSub(cam.distance,
                                                    FMul(in.wheel, ZoomGain)),
                                               MinDistance, MaxDistance)]
          : cam \in {cam0}})

\* the wheel: distance -= wheel * 5.0, clamped to [1, 200]
UpdateZoom(cam0, in) ==
    Only({[cam EXCEPT !.distance = FClamp(FSub(cam.distance, FMul(in.wheel, ZoomGain)),
                                          MinDistance, MaxDistance)]
          : cam \in {cam0}})

update(cam, in) == UpdateZoom(UpdatePan(UpdateOrbit(cam, in), in), in)

Camera == [distance |-> distance, yaw |-> yaw, pitch |-> pitch, target |-> target,
           last_left_mouse |-> last_left_mouse, last_right_mouse |-> last_right_mouse]

Sim == [sigma |-> sigma, beta |-> beta, rho |-> rho, dt |-> dt, tail |-> tail,
        speed |-> speed, start |-> start, points |-> points]

\* State::new
StateNew ==
    [sigma |-> DefaultSigma, beta |-> DefaultBeta, rho |-> DefaultRho,
     dt |-> DefaultDt, tail |-> DefaultTail, speed |-> DefaultSpeed,
     start |-> StartPoint, points |-> <<StartPoint>>]

\* OrbitCamera::new
OrbitCameraNew ==
    [distance |-> DefaultDistance, yaw |-> F(0, 1), pitch |-> F(0, 1),
     target |-> vec3(F(0, 1), F(0, 1), F(0, 1)),
     last_left_mouse |-> None, last_right_mouse |-> None]

\* ------------------------------------------------------------------------
\* draw_ui
\* ------------------------------------------------------------------------

\* ui.slider(id, label, range, &mut data): data is written when the widget
\* reports a value
slider(u, data) == IF u = None THEN data ELSE u[1]

\* variant: rho is left as it is
reset_params_NoRho(st) ==
    [st EXCEPT !.sigma = F(10, 1), !.beta = FDiv(F(8, 1), F(3, 1))]

\* body of `if ui.button(None, "reset params")`
reset_params(st) ==
    [st EXCEPT !.sigma = F(10, 1), !.beta = FDiv(F(8, 1), F(3, 1)), !.rho = F(28, 1)]

\* variant: clear() without push_back(start)
reset_position_NoPush(st) == [st EXCEPT !.points = <<>>]

\* variant: push_back(start) without clear()
reset_position_NoClear(st) == [st EXCEPT !.points = Append(st.points, st.start)]

\* body of `if ui.button(None, "reset position")`: clear(), push_back(start)
reset_position(st) == [st EXCEPT !.points = Append(<<>>, st.start)]

\* variant: "reset params" also resets the position
draw_ui_ResetBoth(st, u) ==
    LET s1 == [st EXCEPT !.sigma = slider(u.sigma, st.sigma),
                         !.beta = slider(u.beta, st.beta),
                         !.rho = slider(u.rho, st.rho),
                         !.tail = slider(u.tail, st.tail),
                         !.speed = slider(u.speed, st.speed)]
        s2 == IF u.reset_params THEN reset_position(reset_params(s1)) ELSE s1
    IN  IF u.reset_position THEN reset_position(s2) ELSE s2

draw_ui(st, u) ==
    LET s1 == [st EXCEPT !.sigma = slider(u.sigma, st.sigma),
                         !.beta = slider(u.beta, st.beta),
                         !.rho = slider(u.rho, st.rho),
                         !.tail = slider(u.tail, st.tail),
                         !.speed = slider(u.speed, st.speed)]
        s2 == IF u.reset_params THEN reset_params(s1) ELSE s1
    IN  IF u.reset_position THEN reset_position(s2) ELSE s2

\* variant: update() runs whether or not the pointer is over the panel
gated_update_NoGate(cam, in) == update(cam, in)

\* if !root_ui().is_mouse_over(mouse_position()) { camera.update(); }
gated_update(cam, in) == IF ~in.over_ui THEN update(cam, in) ELSE cam

\* ------------------------------------------------------------------------
\* Inputs of a frame
\* ------------------------------------------------------------------------

MaxFrames == 2

NoUi == [sigma |-> None, beta |-> None, rho |-> None, tail |-> None, speed |-> None,
         reset_params |-> FALSE, reset_position |-> FALSE]

SigmaValues == {F(0 - 20, 1)}
BetaValues == {F(0 - 20, 1)}
RhoValues == {F(40, 1)}
TailValues == {F(21, 2)}
SpeedValues == {F(3, 2), SpeedMax}

\* the pointer operates at most one widget of the panel in a frame
UiEvents ==
    {NoUi}
    \cup {[NoUi EXCEPT !.sigma = Some(v)] : v \in SigmaValues}
    \cup {[NoUi EXCEPT !.beta = Some(v)] : v \in BetaValues}
    \cup {[NoUi EXCEPT !.rho = Some(v)] : v \in RhoValues}
    \cup {[NoUi EXCEPT !.tail = Some(v)] : v \in TailValues}
    \cup {[NoUi EXCEPT !.speed = Some(v)] : v \in SpeedValues}
    \cup {[NoUi EXCEPT !.reset_params = TRUE]}
    \cup {[NoUi EXCEPT !.reset_position = TRUE]}

QuietUi == {NoUi}

PosA == vec2(F(100, 1), F(100, 1))
PosB == vec2(F(400, 1), F(500, 1))

Idle == [mouse |-> PosA, left |-> FALSE, right |-> FALSE, wheel |-> F(0, 1),
         over_ui |-> FALSE]

\* the pointer while it operates a widget: over the panel, left button down
Operating == [Idle EXCEPT !.over_ui = TRUE, !.left = TRUE, !.mouse = PosB]

\* the pointer over the scene while the wheel is turned
Scrolling == [Idle EXCEPT !.wheel = F(2, 1)]

\* frames while the user works the panel: a widget is operated with the
\* pointer on it, or no widget is touched and the wheel is turned over the
\* scene
PanelFrames ==
    {<<NoUi, Scrolling>>} \cup {<<u, Operating>> : u \in UiEvents \ QuietUi}

WheelValues == {F(30, 1), 0 - FMax}

\* pointer states while the camera is being operated: a drag with either
\* button, a turn of the wheel, or both at once, over the scene or over the
\* panel
PointerInputs ==
    [mouse : {PosA, PosB}, left : BOOLEAN, right : BOOLEAN,
     wheel : {F(0, 1)}, over_ui : BOOLEAN]
    \cup [mouse : {PosA}, left : {FALSE}, right : {FALSE},
          wheel : WheelValues, over_ui : BOOLEAN]
    \cup {[mouse |-> PosB, left |-> TRUE, right |-> TRUE, wheel |-> F(3, 1),
           over_ui |-> FALSE]}

\* frames while the user works the camera
CameraFrames == QuietUi \X PointerInputs

\* ------------------------------------------------------------------------
\* main
\* ------------------------------------------------------------------------

InitWith(UP) ==
    /\ sigma = StateNew.sigma
    /\ beta = StateNew.beta
    /\ rho = StateNew.rho
    /\ dt = StateNew.dt
    /\ tail = StateNew.tail
    /\ speed = StateNew.speed
    /\ start = StateNew.start
    /\ points = StateNew.points
    /\ distance = OrbitCameraNew.distance
    /\ yaw = OrbitCameraNew.yaw
    /\ pitch = OrbitCameraNew.pitch
    /\ target = OrbitCameraNew.target
    /\ last_left_mouse = OrbitCameraNew.last_left_mouse
    /\ last_right_mouse = OrbitCameraNew.last_right_mouse
    /\ camera3d = None
    /\ lines = <<>>
    /\ \E up \in UP :
          /\ ui = up[1]
          /\ input = up[2]
    /\ released = [left |-> ~input.left, right |-> ~input.right]
    /\ pc = "draw_ui"
    /\ frame = 0

\* draw_ui(&mut state)
DrawUi ==
    /\ pc = "draw_ui"
    /\ \E st \in {draw_ui(Sim, ui)} :
           /\ sigma' = st.sigma
           /\ beta' = st.beta
           /\ rho' = st.rho
           /\ dt' = st.dt
           /\ tail' = st.tail
           /\ speed' = st.speed
           /\ start' = st.start
           /\ points' = st.points
    /\ pc' = "update"
    /\ UNCHANGED <<distance, yaw, pitch, target, last_left_mouse, last_right_mouse,
                   camera3d, lines, ui, input, released, frame>>

\* the gated camera.update() and set_camera(&camera.get_camera())
CameraUpdate ==
    /\ pc = "update"
    /\ \E cam \in {gated_update(Camera, input)} :
           /\ distance' = cam.distance
           /\ yaw' = cam.yaw
           /\ pitch' = cam.pitch
           /\ target' = cam.target
           /\ last_left_mouse' = cam.last_left_mouse
           /\ last_right_mouse' = cam.last_right_mouse
           /\ camera3d' = Some(get_camera(cam.distance, cam.yaw, cam.pitch, cam.target))
    /\ released' = [left |-> released.left /\ (input.over_ui \/ ~input.left),
                    right |-> released.right /\ (input.over_ui \/ ~input.right)]
    /\ pc' = "step"
    /\ UNCHANGED <<sigma, beta, rho, dt, tail, speed, start, points,
                   lines, ui, input, frame>>

\* variant: step() is skipped, like update(), while the pointer is over the
\* panel
Step_Gated ==
    /\ pc = "step"
    /\ \E r \in {IF input.over_ui THEN [points |-> points, panicked |-> FALSE]
                  ELSE step(points, tail, speed, sigma, beta, rho, dt)} :
           /\ points' = r.points
           /\ pc' = IF r.panicked THEN "panicked" ELSE "draw"
    /\ UNCHANGED <<sigma, beta, rho, dt, tail, speed, start,
                   distance, yaw, pitch, target, last_left_mouse, last_right_mouse,
                   camera3d, lines, ui, input, released, frame>>

\* state.step()
Step ==
    /\ pc = "step"
    /\ \E r \in {step(points, tail, speed, sigma, beta, rho, dt)} :
           /\ points' = r.points
           /\ pc' = IF r.panicked THEN "panicked" ELSE "draw"
    /\ UNCHANGED <<sigma, beta, rho, dt, tail, speed, start,
                   distance, yaw, pitch, target, last_left_mouse, last_right_mouse,
                   camera3d, lines, ui, input, released, frame>>

\* state.draw()
Draw ==
    /\ pc = "draw"
    /\ lines' = draw(points)
    /\ pc' = "next_frame"
    /\ UNCHANGED <<sigma, beta, rho, dt, tail, speed, start, points,
                   distance, yaw, pitch, target, last_left_mouse, last_right_mouse,
                   camera3d, ui, input, released, frame>>

\* next_frame().await, then clear_background at the top of the loop; the
\* backend polls the widgets and the pointer for the new frame
Poll(UP) ==
    /\ pc = "next_frame"
    /\ lines' = <<>>
    /\ \E up \in UP :
          /\ ui' = up[1]
          /\ input' = up[2]
          /\ released' = [left |-> released.left \/ ~up[2].left,
                          right |-> released.right \/ ~up[2].right]
    /\ pc' = "draw_ui"
    /\ UNCHANGED <<sigma, beta, rho, dt, tail, speed, start, points,
                   distance, yaw, pitch, target, last_left_mouse, last_right_mouse,
                   camera3d>>

NextFrame ==
    /\ frame < MaxFrames
    /\ frame' = frame + 1
    /\ Poll(PanelFrames)

CamNextFrame ==
    /\ frame < MaxFrames
    /\ frame' = frame + 1
    /\ Poll(CameraFrames)

\* the frame loop while the user works the panel
Init == InitWith(PanelFrames)
Next == DrawUi \/ CameraUpdate \/ Step \/ Draw \/ NextFrame
Spec == Init /\ [][Next]_vars

\* the frame loop while the user works the camera
CamInit == InitWith(CameraFrames)
CamNext == DrawUi \/ CameraUpdate \/ Step \/ Draw \/ CamNextFrame
CamSpec == CamInit /\ [][CamNext]_vars

\* the frame loop left running after the user has dragged sigma to its lower
\* end (a diverging system) in the first frame and shortened the tail in the
\* second, and then only works the tail and speed sliders; the loop never
\* ends, so the frame count is no longer followed past MaxFrames
DivergingUi == {[NoUi EXCEPT !.sigma = Some(v)] : v \in SigmaValues}
ShortTailUi == {[NoUi EXCEPT !.tail = Some(v)] : v \in TailValues}
LiveUiEvents == ShortTailUi \cup {[NoUi EXCEPT !.speed = Some(SpeedMax)]}

LiveNextFrame ==
    /\ frame' = IF frame < MaxFrames THEN frame + 1 ELSE frame
    /\ Poll((IF frame = 0 THEN ShortTailUi ELSE LiveUiEvents) \X {Idle})

LiveInit == InitWith(DivergingUi \X {Idle})
LiveNext == DrawUi \/ CameraUpdate \/ Step \/ Draw \/ LiveNextFrame

\* the loop of main() never stops
LiveFairness == WF_vars(LiveNext)

LiveSpec == LiveInit /\ [][LiveNext]_vars /\ LiveFairness

TypeOK == pc \in {"draw_ui", "update", "step", "draw", "next_frame", "panicked"}

\* ------------------------------------------------------------------------
\* Properties
\* ------------------------------------------------------------------------

HasNonFinite(pts) == \E i \in 1..Len(pts) : ~V3Finite(pts[i])
AllNonFinite(pts) == \A i \in 1..Len(pts) : ~V3Finite(pts[i])

\* the n points integrated in sequence from p with fixed coefficients
RECURSIVE Chain(_, _, _, _, _, _)
Chain(p, n0, sg, bt, rh, d) ==
    Only({IF n = 0 THEN <<>>
          ELSE Only({<<q>> \o Chain(q, n - 1, sg, bt, rh, d)
                     : q \in {lorenz_integrate(p, sg, bt, rh, d)}})
          : n \in {n0}})

IsSuffix(s0, t0) ==
    \E s \in {s0}, t \in {t0} :
       /\ Len(s) <= Len(t)
       /\ s = SubSeq(t, Len(t) - Len(s) + 1, Len(t))

\* C1: immediately after every step() call the trail is no longer than
\* floor(tail), whatever the sliders and resets did in the frames before.
C1_BoundAfterStep == pc = "draw" => Len(points) <= AsUsize(tail)

\* a step() that had to evict down to a fractional tail
C1_Witness ==
    /\ pc = "draw"
    /\ frame >= 1
    /\ tail % Scale # 0
    /\ Len(points) = AsUsize(tail)

\* C2 (as claimed): the trail is no longer than floor(tail) in every state
\* of the frame loop, also right after draw_ui moved the tail slider.
C2_BoundEverywhere == Len(points) <= AsUsize(tail)

\* C2 (amended): the trail is no longer than floor(tail) from the end of
\* step() through draw() up to the next draw_ui; between a tail slider
\* change and the end of the following step() it may be longer.
C2_BoundOutsideUiToStep ==
    pc \in {"draw_ui", "draw", "next_frame"} => Len(points) <= AsUsize(tail)

\* the frame's lines were drawn from a trail cut to the tail set in this frame
C2_Witness ==
    /\ pc = "next_frame"
    /\ frame >= 1
    /\ ui.tail # None
    /\ Len(points) = AsUsize(tail)
    /\ Len(lines) = Len(points) - 1

\* C3: step() leaves a suffix of (old trail followed by the newly integrated
\* points, in order of computation) ending in the point computed last, so
\* eviction drops from the front only and never reorders; a reset leaves
\* exactly the start point and a slider change leaves the trail as it is.
C3_Chronological ==
    [][/\ pc = "step" =>
            \E all \in {points \o Chain(Last(points), AsUsize(speed),
                                        sigma, beta, rho, dt)} :
                /\ points' # <<>>
                /\ IsSuffix(points', all)
                /\ Last(points') = Last(all)
       /\ (pc = "draw_ui" /\ ui.reset_position) => Last(points') = start
       /\ (pc = "draw_ui" /\ ~ui.reset_position) => points' = points]_vars

\* a step() that computed more points than the tail holds: every older
\* point and the first new ones were evicted
C3_Witness ==
    /\ pc = "draw"
    /\ AsUsize(speed) > AsUsize(tail)
    /\ Len(points) = AsUsize(tail)

\* C4: right after "reset position" the trail is exactly <<start>>, start is
\* still (0, 1, 1.05) and no parameter has changed.
C4_ResetPosition ==
    [][(pc = "draw_ui" /\ ui.reset_position) =>
          /\ Len(points') = 1
          /\ points'[1] = vec3(F(0, 1), F(1, 1), F(105, 100))
          /\ start' = start
          /\ start' = vec3(F(0, 1), F(1, 1), F(105, 100))
          /\ UNCHANGED <<sigma, beta, rho, dt, tail, speed>>]_vars

\* a reset of a trail that had grown under changed coefficients
C4_Witness ==
    /\ pc = "update"
    /\ ui.reset_position
    /\ frame >= 1
    /\ sigma # DefaultSigma
    /\ points = <<start>>

\* C5: right after "reset params" (sigma, beta, rho) = (10, 8/3, 28), the
\* values of State::new, and dt, tail, speed, start and the trail are as
\* before.
C5_ResetParams ==
    [][(pc = "draw_ui" /\ ui.reset_params) =>
          /\ sigma' = F(10, 1)
          /\ beta' = FDiv(F(8, 1), F(3, 1))
          /\ rho' = F(28, 1)
          /\ <<sigma', beta', rho'>> = <<StateNew.sigma, StateNew.beta, StateNew.rho>>
          /\ UNCHANGED <<dt, tail, speed, start, points>>]_vars

\* a reset of coefficients after part of the trail was integrated with others
C5_Witness ==
    /\ pc = "update"
    /\ ui.reset_params
    /\ sigma = DefaultSigma /\ beta = DefaultBeta /\ rho = DefaultRho
    /\ \E i \in 1..(Len(points) - 1) :
          points[i + 1] # lorenz_integrate(points[i], DefaultSigma, DefaultBeta,
                                           DefaultRho, DefaultDt)

\* C6: the camera distance is within [1, 200] in every state.
C6_DistanceInRange == distance >= F(1, 1) /\ distance <= F(200, 1)

\* the wheel has driven the distance into the lower clamp
C6_Witness == frame >= 1 /\ distance = F(1, 1)

\* C7: the camera pitch never leaves [-pi/2 + 0.1, pi/2 - 0.1] and so is
\* strictly inside (-pi/2, pi/2).
C7_PitchInRange ==
    /\ pitch >= FAdd(FNeg(FRAC_PI_2), F(1, 10))
    /\ pitch <= FSub(FRAC_PI_2, F(1, 10))
    /\ pitch > 0 - FRAC_PI_2
    /\ pitch < FRAC_PI_2

\* a left drag has driven the pitch into the upper clamp
C7_Witness == frame >= 1 /\ pitch = FSub(FRAC_PI_2, F(1, 10))

\* C8: when a button was up in some frame and is down again, the first
\* update() that sees it down changes neither yaw nor pitch (left button)
\* nor target (right button).
C8_NoJumpOnRepress ==
    [][(pc = "update" /\ ~input.over_ui) =>
          /\ (input.left /\ released.left) => (yaw' = yaw /\ pitch' = pitch)
          /\ (input.right /\ released.right) => target' = target]_vars

\* C9: in a frame with the pointer over the panel update() does not run:
\* distance, yaw, pitch, target and both trackers stay as they are.
C9_Gating ==
    [][input.over_ui =>
          UNCHANGED <<distance, yaw, pitch, target,
                      last_left_mouse, last_right_mouse>>]_vars

\* a left drag that moved on over the panel, past the gate
C9_Witness ==
    /\ pc = "step"
    /\ input.over_ui
    /\ input.left
    /\ last_left_mouse # None
    /\ last_left_mouse # Some(input.mouse)

\* C10 (as claimed): once the trail holds a non-finite point, further
\* step() calls lead to a trail of finite points only.
C10_SelfCorrects == HasNonFinite(points) ~> ~HasNonFinite(points)

\* C10 (amended): once the trail holds a non-finite point it holds one in
\* every later state unless the position is reset: every point integrated
\* from a non-finite point is non-finite, so eviction only replaces the
\* offending points by further non-finite ones.
C10_NonFiniteStays ==
    [][(HasNonFinite(points) /\ ~(pc = "draw_ui" /\ ui.reset_position))
          => (HasNonFinite(points') /\ ~V3Finite(Last(points')))]_vars

\* every point that was in the trail when it diverged has been evicted, and
\* the trail holds non-finite points only
C10_Witness ==
    /\ pc = "draw"
    /\ Len(points) = AsUsize(tail)
    /\ AllNonFinite(points)

\* C11: the trail changes only in step() and in "reset position": a slider
\* change, "reset params", the camera update, draw() and the wait for the
\* next frame leave it as it is, and step() changes neither a simulation
\* parameter nor the camera.
C11_TrailOwners ==
    [][/\ (pc = "draw_ui" /\ ~ui.reset_position) => points' = points
       /\ pc \in {"update", "draw", "next_frame"} => points' = points
       /\ pc = "step" =>
             UNCHANGED <<sigma, beta, rho, dt, tail, speed, start,
                         distance, yaw, pitch, target,
                         last_left_mouse, last_right_mouse>>]_vars

\* step() has run after "reset params" on a grown trail, with the camera
\* zoomed away from where it started
C11_Witness ==
    /\ pc = "draw"
    /\ ui.reset_params
    /\ distance # DefaultDistance
    /\ Len(points) > 1 + AsUsize(speed)

Min(a, b) == IF a <= b THEN a ELSE b

\* the last n elements of s
LastN(s0, n0) ==
    Only({SubSeq(s, Len(s) - n + 1, Len(s)) : s \in {s0}, n \in {n0}})

\* C13: with L = Len(trail) >= 1, k = floor(speed) >= 1 and m = floor(tail)
\* >= 1, step() leaves the last min(L + k, m) elements of the old trail
\* followed by the k points integrated one from the other starting at the
\* old last point; from the initial one-point trail with k = 1 the length
\* becomes 2, and a trail longer than a just reduced tail is cut to at most
\* m by a single step() with k = 1, its last point being the new one.
C13_StepResult ==
    [][(pc = "step" /\ Len(points) >= 1 /\ AsUsize(speed) >= 1
                    /\ AsUsize(tail) >= 1) =>
          \E k \in {AsUsize(speed)}, m \in {AsUsize(tail)}, L \in {Len(points)} :
             /\ points' = LastN(points \o Chain(Last(points), k,
                                                 sigma, beta, rho, dt),
                                Min(L + k, m))
             /\ (L = 1 /\ k = 1) => Len(points') = 2
             /\ (k = 1 /\ L > m) =>
                   /\ Len(points') <= m
                   /\ Last(points')
                         = lorenz_integrate(Last(points), sigma, beta, rho, dt)
                   /\ SubSeq(points', 1, m - 1)
                         = SubSeq(points, L - m + 2, L)]_vars

\* a single-iteration step() has cut a longer trail to the tail just set
C13_Witness ==
    /\ pc = "draw"
    /\ AsUsize(speed) = 1
    /\ ui.tail # None
    /\ Len(points) = AsUsize(tail)

\* p + (sg * (y - x), x * (rh - z) - y, x * y - bt * z) * d
Euler(p0, sg0, bt0, rh0, d0) ==
    Only({vec3(FAdd(p.x, FMul(FMul(sg, FSub(p.y, p.x)), d)),
               FAdd(p.y, FMul(FSub(FMul(p.x, FSub(rh, p.z)), p.y), d)),
               FAdd(p.z, FMul(FSub(FMul(p.x, p.y), FMul(bt, p.z)), d)))
          : p \in {p0}, sg \in {sg0}, bt \in {bt0}, rh \in {rh0}, d \in {d0}})

\* the value a coefficient has after the widgets of the frame were handled
FrameValue(button, value, u, old) ==
    IF button THEN value ELSE IF u # None THEN u[1] ELSE old

\* C14: every point step() appends is the explicit Euler step of the point
\* before it, the first of them of the old last point, with dt = 0.005 and
\* the sigma, beta, rho the widgets left in this frame; from (0, 1, 1.05)
\* with the default coefficients the first new point is
\* (0.05, 1 - 0.005, 1.05 - (8/3) * 1.05 * 0.005).
C14_EulerStep ==
    [][(pc = "step" /\ AsUsize(speed) >= 1) =>
          \E k \in {AsUsize(speed)}, n \in {Len(points')},
             sg \in {FrameValue(ui.reset_params, F(10, 1), ui.sigma, sigma)},
             bt \in {FrameValue(ui.reset_params, FDiv(F(8, 1), F(3, 1)),
                                ui.beta, beta)},
             rh \in {FrameValue(ui.reset_params, F(28, 1), ui.rho, rho)} :
             /\ dt = F(5, 1000)
             /\ \A j \in 2..n :
                   j > n - k => points'[j] = Euler(points'[j - 1], sg, bt, rh,
                                                   F(5, 1000))
             /\ n > k => points'[n - k] = Last(points)
             /\ (/\ points = <<vec3(F(0, 1), F(1, 1), F(105, 100))>>
                 /\ <<sg, bt, rh>> = <<F(10, 1), FDiv(F(8, 1), F(3, 1)), F(28, 1)>>
                 /\ n = k + 1) =>
                   points'[2] =
                     vec3(F(5, 100),
                          FSub(F(1, 1), F(5, 1000)),
                          FSub(F(105, 100),
                               FMul(FMul(FDiv(F(8, 1), F(3, 1)), F(105, 100)),
                                    F(5, 1000))))]_vars

\* step() has appended to a grown trail in the frame in which the sigma
\* slider was moved
C14_Witness ==
    /\ pc = "draw"
    /\ frame >= 1
    /\ ui.sigma # None
    /\ Len(points) > 1 + AsUsize(speed)

\* C15: an update() call leaves each tracker at Some(pointer) if its button
\* is down and at None if it is up; with the button down and the tracker
\* None it changes neither yaw nor pitch (left) nor target (right); with the
\* left button down and the tracker Some(last) it subtracts dx * 0.005 from
\* yaw and adds dy * 0.005 to pitch, clamped to [-pi/2 + 0.1, pi/2 - 0.1],
\* where (dx, dy) = pointer - last.
C15_Trackers ==
    [][(pc = "update" /\ ~input.over_ui) =>
          /\ last_left_mouse' = IF input.left THEN Some(input.mouse) ELSE None
          /\ last_right_mouse' = IF input.right THEN Some(input.mouse) ELSE None
          /\ (input.left /\ last_left_mouse = None) =>
                (yaw' = yaw /\ pitch' = pitch)
          /\ (input.right /\ last_right_mouse = None) => target' = target
          /\ (input.left /\ last_left_mouse # None) =>
                \E dx \in {FSub(input.mouse.x, last_left_mouse[1].x)},
                   dy \in {FSub(input.mouse.y, last_left_mouse[1].y)} :
                   /\ yaw' = FSub(yaw, FMul(dx, F(5, 1000)))
                   /\ pitch' = FClamp(FAdd(pitch, FMul(dy, F(5, 1000))),
                                      FAdd(FNeg(FRAC_PI_2), F(1, 10)),
                                      FSub(FRAC_PI_2, F(1, 10)))]_vars

\* a drag with both buttons has turned the camera and moved its target
C15_Witness ==
    /\ pc = "step"
    /\ ~input.over_ui
    /\ input.left /\ input.right
    /\ last_left_mouse = Some(input.mouse)
    /\ last_right_mouse = Some(input.mouse)
    /\ yaw # F(0, 1)
    /\ target # vec3(F(0, 1), F(0, 1), F(0, 1))

\* C16: inside update() the left-button branch changes only yaw, pitch and
\* the left tracker, the right-button branch only target and the right
\* tracker, and the zoom only distance; the zoom is applied in every
\* update() whatever the buttons do, so yaw and pitch stay when the left
\* button is up, target stays when the right button is up, and with no
\* button held and a scroll delta of 0 distance, yaw, pitch and target stay.
C16_Independent ==
    [][(pc = "update" /\ ~input.over_ui) =>
          /\ \E o \in {UpdateOrbit(Camera, input)} :
                /\ o.distance = distance
                /\ o.target = target
                /\ o.last_right_mouse = last_right_mouse
          /\ \E q \in {UpdatePan(Camera, input)} :
                /\ q.distance = distance
                /\ q.yaw = yaw
                /\ q.pitch = pitch
                /\ q.last_left_mouse = last_left_mouse
          /\ \E z \in {UpdateZoom(Camera, input)} :
                z = [Camera EXCEPT !.distance = z.distance]
          /\ distance' = FClamp(FSub(distance, FMul(input.wheel, F(5, 1))),
                                F(1, 1), F(200, 1))
          /\ ~input.left => (yaw' = yaw /\ pitch' = pitch)
          /\ ~input.right => target' = target
          /\ (~input.left /\ ~input.right /\ input.wheel = F(0, 1)) =>
                UNCHANGED <<distance, yaw, pitch, target>>]_vars

\* the wheel was turned during a drag with both buttons: the camera has
\* turned, its target has moved and the distance has changed in one update()
C16_Witness ==
    /\ pc = "step"
    /\ ~input.over_ui
    /\ input.left /\ input.right
    /\ input.wheel # F(0, 1)
    /\ distance # DefaultDistance
    /\ yaw # F(0, 1)
    /\ target # vec3(F(0, 1), F(0, 1), F(0, 1))

\* the position that follows p in the body of the loop
After(p) ==
    CASE p = "draw_ui" -> "update"
      [] p = "update" -> "step"
      [] p = "step" -> "draw"
      [] p = "draw" -> "next_frame"
      [] p = "next_frame" -> "draw_ui"

\* C17: every frame runs draw_ui, the camera update (update() only if the
\* pointer is not over the panel), step() and draw() in this order, each
\* once; step() runs whether or not the pointer is over the panel and
\* advances the trail by floor(speed) integration steps; a slider change or
\* a reset of the frame is already in effect in the step() and the draw() of
\* the same frame.
C17_FrameOrder ==
    [][/\ pc' = After(pc)
       /\ pc # "draw_ui" => UNCHANGED <<sigma, beta, rho, tail, speed>>
       /\ pc # "update" => UNCHANGED <<distance, yaw, pitch, target,
                                       last_left_mouse, last_right_mouse>>
       /\ pc # "step" => (points' = points \/ (pc = "draw_ui" /\ ui.reset_position))
       /\ pc # "draw" => (lines' = lines \/ pc = "next_frame")
       /\ pc = "update" =>
             Camera' = IF input.over_ui THEN Camera ELSE update(Camera, input)
       /\ pc = "step" =>
             \E k \in {AsUsize(FrameValue(FALSE, speed, ui.speed, speed))},
                sg \in {FrameValue(ui.reset_params, F(10, 1), ui.sigma, sigma)},
                bt \in {FrameValue(ui.reset_params, FDiv(F(8, 1), F(3, 1)),
                                   ui.beta, beta)},
                rh \in {FrameValue(ui.reset_params, F(28, 1), ui.rho, rho)},
                m \in {AsUsize(FrameValue(FALSE, tail, ui.tail, tail))} :
                /\ k >= 1
                /\ ui.reset_position => points = <<start>>
                /\ Last(points') = Last(Chain(Last(points), k, sg, bt, rh, dt))
                /\ Len(points') = Min(Len(points) + k, m)
       /\ pc = "draw" =>
             /\ Len(lines') = Len(points) - 1
             /\ lines'[1].start = points[1]
             /\ lines'[Len(lines')].end = Last(points)]_vars

\* a frame with the pointer over the panel, in which the speed slider was
\* moved: step() has run with the new speed and draw() has drawn its result
C17_Witness ==
    /\ pc = "next_frame"
    /\ frame >= 1
    /\ input.over_ui
    /\ ui.speed # None
    /\ Len(points) > 1 + AsUsize(speed)
    /\ Len(lines) = Len(points) - 1
    /\ lines[Len(lines)].end
          = lorenz_integrate(points[Len(points) - 1], sigma, beta, rho, dt)

\* C18: for a trail of N points draw() emits N - 1 segments, the i-th
\* (from 0) joining point i to point i + 1 with opacity i / N, so that the
\* opacities grow strictly with i, the oldest is 0 and all are below 1; a
\* trail of one point gives no segment; draw() leaves the trail as it is.
C18_Segments ==
    [][pc = "draw" =>
          \E N \in {Len(points)} :
             /\ points' = points
             /\ Len(lines') = N - 1
             /\ \A i \in 0..(N - 2) :
                   /\ lines'[i + 1].start = points[i + 1]
                   /\ lines'[i + 1].end = points[i + 2]
                   /\ lines'[i + 1].alpha = FDiv(F(i, 1), F(N, 1))
                   /\ lines'[i + 1].alpha < F(1, 1)
                   /\ i > 0 => lines'[i].alpha < lines'[i + 1].alpha
             /\ N >= 2 => lines'[1].alpha = F(0, 1)
             /\ draw(<<Last(points)>>) = <<>>]_vars

\* draw() has drawn a trail of several points, oldest segment first
C18_Witness ==
    /\ pc = "next_frame"
    /\ frame >= 1
    /\ Len(points) >= 3
    /\ Len(lines) = Len(points) - 1
    /\ lines[1].alpha = F(0, 1)
    /\ lines[Len(lines)].alpha > lines[1].alpha
    /\ lines[Len(lines)].end = Last(points)

\* C19: the trail is never empty and step() never panics in
\* points.back().unwrap(), whatever tail and speed the sliders set and
\* wherever "reset position" falls between the frames.
C19_NeverEmpty == Len(points) >= 1 /\ pc # "panicked"

\* after "reset position" a step() with more iterations than the tail holds
\* has evicted the start point and all but the newest points
C19_Witness ==
    /\ pc = "draw"
    /\ ui.reset_position
    /\ AsUsize(speed) > AsUsize(tail)
    /\ Len(points) = AsUsize(tail)
    /\ points[1] # start

====
